---- MODULE Spec2Model ----
(***************************************************************************)
(* Model of python-service/app.py: the analytics dashboard service.        *)
(*                                                                         *)
(* The store is the SQLite file python.db with the two tables of init_db.  *)
(* Every handler opens its own connection (get_db).  The sqlite3 module    *)
(* opens a transaction before the first INSERT/UPDATE of a connection and  *)
(* keeps it open until commit; SQLite lets one connection at a time hold   *)
(* the write lock, and the other connections read the committed tables.    *)
(* A connection that is never closed by the code (an exception between     *)
(* get_db and conn.close) stays open until the runtime finalizes it.       *)
(***************************************************************************)
EXTENDS Integers, Sequences, FiniteSets, TLC

\* ---------------------------------------------------------------- bounds
MaxOps == 3        \* requests and feed messages accepted in one run
MaxTime == 2       \* clicked_at values of the producers, 1..MaxTime

\* ---------------------------------------------------------------- values
Workers == {"w1"}                \* request threads of app.run
Feed == "feed"                   \* the redis_subscriber thread
Procs == Workers \cup {Feed}

Codes == {"a", "b"}              \* short codes
Urls == {"u1"}                   \* long urls
NULL == "NULL"                   \* None / SQL NULL in a text position
ABSENT == "ABSENT"               \* key not present in a dict / form
NullTime == 0                    \* None / SQL NULL in a timestamp position
AbsentTime == -1                 \* clicked_at key not present
Times == 1..MaxTime

VARIABLES
  boot,          \* "start" before __main__ ran, "running" after app.run
  redis_client,  \* "none" or "client"
  click_events,  \* committed rows of table click_events
  url_metadata,  \* committed rows of table url_metadata
  lock,          \* holder of the SQLite write lock: a process, "none", "leaked"
  txn,           \* per thread: the tables as its open transaction sees them
  leaked,        \* TRUE when handlers that raised left connections open
  pc,            \* position of every thread
  loc,           \* local variables of the handler every thread runs
  out,           \* what the step just taken sent out: the HTTP response or
                 \* log line that ended a handler run, the services it called
  ops,           \* requests and messages accepted so far; the clock of
                 \* datetime.now() advances with each of them
  stored,        \* per code: click rows it had when its metadata row was stored
  okClicks       \* per code: process_click_event calls that returned after
                 \* the metadata row of the code was stored

vars == <<boot, redis_client, click_events, url_metadata, lock, txn, leaked,
          pc, loc, out, ops, stored, okClicks>>

\* datetime.now().isoformat()
Now == ops

\* ---------------------------------------------------------------- tables
RECURSIVE CountCode(_, _)
\* SELECT COUNT(*) FROM rows WHERE short_code = c
CountCode(rows, c) ==
  IF rows = <<>> THEN 0
  ELSE (IF Head(rows).short_code = c THEN 1 ELSE 0) + CountCode(Tail(rows), c)

HasRow(rows, c) == \E i \in 1..Len(rows) : rows[i].short_code = c

RowOf(rows, c) == rows[CHOOSE i \in 1..Len(rows) : rows[i].short_code = c]

NoTxn == [ce |-> <<>>, um |-> <<>>]

\* InsertClick that writes the row of the event twice
InsertClick_twice(ce, sc, ca) ==
  Append(Append(ce, [id |-> Len(ce) + 1, short_code |-> sc,
                     clicked_at |-> ca]),
         [id |-> Len(ce) + 2, short_code |-> sc, clicked_at |-> ca])

\* InsertClick that skips a click already recorded (same code and time)
InsertClick_dedup(ce, sc, ca) ==
  IF \E i \in 1..Len(ce) : ce[i].short_code = sc /\ ce[i].clicked_at = ca
  THEN ce
  ELSE Append(ce, [id |-> Len(ce) + 1, short_code |-> sc, clicked_at |-> ca])

\* InsertClick that keeps only the latest click of a code
InsertClick_latest_only(ce, sc, ca) ==
  Append(SelectSeq(ce, LAMBDA r : r.short_code # sc),
         [id |-> Len(ce) + 1, short_code |-> sc, clicked_at |-> ca])

\* INSERT INTO click_events (short_code, clicked_at) VALUES (?, ?)
InsertClick(ce, sc, ca) ==
  Append(ce, [id |-> Len(ce) + 1, short_code |-> sc, clicked_at |-> ca])

\* UpdateClicks without the WHERE clause
UpdateClicks_every_row(um, sc, ca) ==
  [i \in 1..Len(um) |->
     [um[i] EXCEPT !.total_clicks = @ + 1, !.last_clicked = ca]]

\* UpdateClicks that keeps the greatest clicked_at seen so far
UpdateClicks_greatest(um, sc, ca) ==
  [i \in 1..Len(um) |->
     IF um[i].short_code = sc
     THEN [um[i] EXCEPT !.total_clicks = @ + 1,
                        !.last_clicked = IF @ > ca THEN @ ELSE ca]
     ELSE um[i]]

\* UPDATE url_metadata SET total_clicks = total_clicks + 1, last_clicked = ?
\* WHERE short_code = ?
UpdateClicks(um, sc, ca) ==
  [i \in 1..Len(um) |->
     IF um[i].short_code = sc
     THEN [um[i] EXCEPT !.total_clicks = @ + 1, !.last_clicked = ca]
     ELSE um[i]]

NoMeta == [status |-> ABSENT, title |-> ABSENT, description |-> ABSENT,
           favicon_url |-> ABSENT]

\* dict.get(key): None when the key is absent
Get(v) == IF v = ABSENT THEN NULL ELSE v

\* NewRow that stores what every 200 response of the metadata service held
NewRow_any_response(sc, url, t, metadata) ==
  IF metadata.status # "unavailable"
  THEN [short_code |-> sc, long_url |-> url, total_clicks |-> 0,
        first_seen |-> t, last_clicked |-> NullTime,
        title |-> Get(metadata.title),
        description |-> Get(metadata.description),
        favicon_url |-> Get(metadata.favicon_url),
        metadata_status |-> "fetched"]
  ELSE [short_code |-> sc, long_url |-> url, total_clicks |-> 0,
        first_seen |-> t, last_clicked |-> NullTime,
        title |-> NULL, description |-> NULL, favicon_url |-> NULL,
        metadata_status |-> "failed"]

\* the row written by either INSERT OR IGNORE of create_short_url
NewRow(sc, url, t, metadata) ==
  IF metadata.status = "success"
  THEN [short_code |-> sc, long_url |-> url, total_clicks |-> 0,
        first_seen |-> t, last_clicked |-> NullTime,
        title |-> Get(metadata.title),
        description |-> Get(metadata.description),
        favicon_url |-> Get(metadata.favicon_url),
        metadata_status |-> "fetched"]
  ELSE [short_code |-> sc, long_url |-> url, total_clicks |-> 0,
        first_seen |-> t, last_clicked |-> NullTime,
        title |-> NULL, description |-> NULL, favicon_url |-> NULL,
        metadata_status |-> "failed"]

\* InsertOrIgnore as INSERT OR REPLACE
InsertOrIgnore_replace(um, row) ==
  IF HasRow(um, row.short_code)
  THEN [i \in 1..Len(um) |->
          IF um[i].short_code = row.short_code THEN row ELSE um[i]]
  ELSE Append(um, row)

\* INSERT OR IGNORE INTO url_metadata: short_code is the PRIMARY KEY
InsertOrIgnore(um, row) ==
  IF HasRow(um, row.short_code) THEN um ELSE Append(um, row)

\* ---------------------------------------------------------------- locals
NoLoc == [short_code |-> NULL, clicked_at |-> NullTime, long_url |-> NULL,
          metadata |-> NoMeta]

\* no JSON document of get_stats in the response
NoStats == [total_urls |-> -1, total_clicks |-> -1, top_urls |-> {},
            recent_clicks |-> {}, clicks_over_time |-> {}, all_urls |-> {}]

Silent == [p |-> "none", at |-> "none", status |-> 0, body |-> "none",
           metadata |-> ABSENT, calls |-> {}, raised |-> "none",
           stats |-> NoStats]

\* The step of thread p only calls the services in calls.
Calls(p, calls) == out' = [Silent EXCEPT !.p = p, !.calls = calls]

\* The handler run of thread p ends where the thread stands: a worker
\* sends the HTTP response (status, body), the listener logs a line
\* (status 0) and listens again.
Reply(p, status, body, metadata, calls) ==
  out' = [p |-> p, at |-> pc[p], status |-> IF p = Feed THEN 0 ELSE status,
          body |-> body, metadata |-> metadata, calls |-> calls,
          raised |-> "none", stats |-> NoStats]

\* The handler run of thread p ends with the exception exc: Flask answers
\* 500, the listener logs the exception.
Throw(p, exc, calls) ==
  out' = [p |-> p, at |-> pc[p], status |-> IF p = Feed THEN 0 ELSE 500,
          body |-> "error", metadata |-> ABSENT, calls |-> calls,
          raised |-> exc, stats |-> NoStats]

\* ---------------------------------------------------------------- Init
Init ==
  /\ boot = "start"
  /\ redis_client = "none"
  /\ click_events = <<>>
  /\ url_metadata = <<>>
  /\ lock = "none"
  /\ txn = [p \in Procs |-> NoTxn]
  /\ leaked = FALSE
  /\ pc = [p \in Procs |-> "off"]
  /\ loc = [p \in Procs |-> NoLoc]
  /\ out = Silent
  /\ ops = 0
  /\ stored = [c \in Codes |-> 0]
  /\ okClicks = [c \in Codes |-> 0]

\* ---------------------------------------------------------------- startup
\* init_redis that starts the subscriber thread whatever ping() did
init_redis_always_listen(connected) ==
  /\ boot = "start"
  /\ boot' = "running"
  /\ redis_client' = IF connected THEN "client" ELSE "none"
  /\ pc' = [p \in Procs |-> IF p = Feed THEN "listen" ELSE "idle"]
  /\ out' = Silent
  /\ UNCHANGED <<click_events, url_metadata, lock, txn, leaked, loc, ops,
                 stored, okClicks>>

\* __main__: init_db(), init_redis(), app.run().  init_redis starts the
\* subscriber thread only when redis_client.ping() succeeded.
init_redis(connected) ==
  /\ boot = "start"
  /\ boot' = "running"
  /\ redis_client' = IF connected THEN "client" ELSE "none"
  /\ pc' = [p \in Procs |->
              IF p = Feed THEN (IF connected THEN "listen" ELSE "off")
              ELSE "idle"]
  /\ out' = Silent
  /\ UNCHANGED <<click_events, url_metadata, lock, txn, leaked, loc, ops,
                 stored, okClicks>>

\* ---------------------------------------------------------------- exits
\* Caught with the try of the listener around its loop only
Caught_outside_loop(p, exc, calls) ==
  /\ pc' = [pc EXCEPT ![p] = IF p = Feed THEN "dead" ELSE "idle"]
  /\ loc' = [loc EXCEPT ![p] = NoLoc]
  /\ Throw(p, exc, calls)

\* An exception leaves the handler of thread p: the feed listener logs it
\* (lines 59-60) and goes on listening, Flask answers 500.
Caught(p, exc, calls) ==
  /\ pc' = [pc EXCEPT ![p] = IF p = Feed THEN "listen" ELSE "idle"]
  /\ loc' = [loc EXCEPT ![p] = NoLoc]
  /\ Throw(p, exc, calls)

\* An exception raised between get_db() and conn.close(): the connection of
\* p is left open, with its transaction and the write lock it may hold.
Raise(p, exc) ==
  /\ Caught(p, exc, {})
  /\ leaked' = TRUE
  /\ lock' = IF lock = p THEN "leaked" ELSE lock
  /\ txn' = [txn EXCEPT ![p] = NoTxn]

\* The runtime finalizes the connections nobody closed: their transactions
\* are rolled back and the lock one of them may hold is released.
Finalize ==
  /\ leaked
  /\ leaked' = FALSE
  /\ lock' = IF lock = "leaked" THEN "none" ELSE lock
  /\ out' = Silent
  /\ UNCHANGED <<boot, redis_client, click_events, url_metadata, txn, pc,
                 loc, ops, stored, okClicks>>

\* ---------------------------------------------------------------- process_click_event
\* Lines 67-71: read the event, read the clock, open the connection.
Enter_process_click_event(p, data) ==
  /\ loc' = [loc EXCEPT ![p] =
               [NoLoc EXCEPT !.short_code = Get(data.short_code),
                             !.clicked_at = IF data.clicked_at = AbsentTime
                                            THEN Now' ELSE data.clicked_at]]
  /\ pc' = [pc EXCEPT ![p] = "pce_insert"]
  /\ out' = Silent

\* process_click_event_insert on a store that does not serialize writers
process_click_event_insert_unserialized(p) ==
  /\ pc[p] = "pce_insert"
  /\ loc[p].short_code # NULL /\ loc[p].clicked_at # NullTime
  /\ txn' = [txn EXCEPT ![p] =
               [ce |-> InsertClick(click_events, loc[p].short_code,
                                   loc[p].clicked_at),
                um |-> url_metadata]]
  /\ pc' = [pc EXCEPT ![p] = "pce_update"]
  /\ out' = Silent
  /\ UNCHANGED <<boot, redis_client, click_events, url_metadata, lock,
                 leaked, loc, ops, stored, okClicks>>

\* Lines 74-80: the INSERT opens the transaction and takes the write lock.
process_click_event_insert(p) ==
  /\ pc[p] = "pce_insert"
  /\ lock \in {"none", p}
  /\ IF loc[p].short_code = NULL \/ loc[p].clicked_at = NullTime
     THEN \* NOT NULL constraint failed
          /\ Caught(p, "IntegrityError", {})
          /\ leaked' = TRUE
          /\ lock' = "leaked"
          /\ UNCHANGED txn
     ELSE /\ lock' = p
          /\ txn' = [txn EXCEPT ![p] =
                       [ce |-> InsertClick(click_events, loc[p].short_code,
                                           loc[p].clicked_at),
                        um |-> url_metadata]]
          /\ pc' = [pc EXCEPT ![p] = "pce_update"]
          /\ out' = Silent
          /\ UNCHANGED <<loc, leaked>>
  /\ UNCHANGED <<boot, redis_client, click_events, url_metadata, ops, stored,
                 okClicks>>

\* process_click_event_update as an upsert: a missing row is created
process_click_event_update_upsert(p) ==
  /\ pc[p] = "pce_update"
  /\ click_events' = txn[p].ce
  /\ url_metadata' =
       IF HasRow(txn[p].um, loc[p].short_code)
       THEN UpdateClicks(txn[p].um, loc[p].short_code, loc[p].clicked_at)
       ELSE Append(txn[p].um,
                   [NewRow(loc[p].short_code, NULL, Now, NoMeta)
                      EXCEPT !.total_clicks = 1,
                             !.last_clicked = loc[p].clicked_at])
  /\ lock' = "none"
  /\ txn' = [txn EXCEPT ![p] = NoTxn]
  /\ okClicks' = [okClicks EXCEPT ![loc[p].short_code] = @ + 1]
  /\ pc' = [pc EXCEPT ![p] = IF p = Feed THEN "listen" ELSE "idle"]
  /\ loc' = [loc EXCEPT ![p] = NoLoc]
  /\ Reply(p, 200, "success", ABSENT, {})
  /\ UNCHANGED <<boot, redis_client, leaked, ops, stored>>

\* Lines 83-96: the UPDATE runs in the transaction the INSERT opened, the
\* commit publishes both writes and releases the write lock, the connection
\* is closed; then the return to the caller: receive_event answers 200
\* (line 244), the listener takes the next message (line 54).
process_click_event_update(p) ==
  /\ pc[p] = "pce_update"
  /\ click_events' = txn[p].ce
  /\ url_metadata' = UpdateClicks(txn[p].um, loc[p].short_code,
                                  loc[p].clicked_at)
  /\ lock' = "none"
  /\ txn' = [txn EXCEPT ![p] = NoTxn]
  /\ okClicks' = IF HasRow(txn[p].um, loc[p].short_code)
                 THEN [okClicks EXCEPT ![loc[p].short_code] = @ + 1]
                 ELSE okClicks
  /\ pc' = [pc EXCEPT ![p] = IF p = Feed THEN "listen" ELSE "idle"]
  /\ loc' = [loc EXCEPT ![p] = NoLoc]
  /\ Reply(p, 200, "success", ABSENT, {})
  /\ UNCHANGED <<boot, redis_client, leaked, ops, stored>>

\* process_click_event_error when the INSERT was committed on its own
process_click_event_error_insert_kept(p) ==
  /\ pc[p] \in {"pce_insert", "pce_update"}
  /\ click_events' = IF lock = p THEN txn[p].ce ELSE click_events
  /\ Raise(p, "OperationalError")
  /\ UNCHANGED <<boot, redis_client, url_metadata, ops, stored, okClicks>>

\* The statement thread p is about to execute raises
\* sqlite3.OperationalError: "database is locked" when another connection
\* holds the write lock for too long, or any failure of the storage layer.
process_click_event_error(p) ==
  /\ pc[p] \in {"pce_insert", "pce_update"}
  /\ Raise(p, "OperationalError")
  /\ UNCHANGED <<boot, redis_client, click_events, url_metadata, ops, stored,
                 okClicks>>

\* ---------------------------------------------------------------- receive_event
\* request.get_json(): no JSON value (None) or a JSON object
Bodies ==
  {[kind |-> "null", short_code |-> ABSENT, clicked_at |-> AbsentTime]} \cup
  [kind : {"dict"}, short_code : Codes \cup {NULL, ABSENT},
   clicked_at : Times \cup {NullTime, AbsentTime}]

\* InvalidEvent that only tests "not data"
InvalidEvent_empty_only(data) ==
  \/ data.kind = "null"
  \/ (data.short_code = ABSENT /\ data.clicked_at = AbsentTime)

\* not data or "short_code" not in data
InvalidEvent(data) ==
  \/ data.kind = "null"
  \/ (data.short_code = ABSENT /\ data.clicked_at = AbsentTime)
  \/ data.short_code = ABSENT

\* Lines 236-242
receive_event(p, data) ==
  /\ p \in Workers
  /\ pc[p] = "idle"
  /\ ops < MaxOps
  /\ ops' = ops + 1
  /\ IF InvalidEvent(data)
     THEN /\ Reply(p, 400, "Invalid event data", ABSENT, {})
          /\ UNCHANGED <<pc, loc>>
     ELSE Enter_process_click_event(p, data)
  /\ UNCHANGED <<boot, redis_client, click_events, url_metadata, lock, txn,
                 leaked, stored, okClicks>>

\* ---------------------------------------------------------------- get_stats
\* datetime.now() - timedelta(hours=24), in the unit of the clock
Day == 1

RECURSIVE SumClicks(_)
\* SELECT SUM(total_clicks) FROM url_metadata
SumClicks(um) ==
  IF um = <<>> THEN 0 ELSE Head(um).total_clicks + SumClicks(Tail(um))

\* Stats that takes total_clicks from the counters of url_metadata and
\* leaves out the click lists; SUM over an empty table is NULL (here -1)
Stats_sum_of_counters(ce, um, now) ==
  [total_urls |-> Cardinality({um[i].short_code : i \in 1..Len(um)}),
   total_clicks |-> IF um = <<>> THEN -1 ELSE SumClicks(um),
   top_urls |-> {}, recent_clicks |-> {}, clicks_over_time |-> {},
   all_urls |-> {um[i] : i \in 1..Len(um)}]

\* Lines 254-309: the five SELECTs on the committed tables.  The lists are
\* given as the sets of their entries (within MaxOps requests the LIMITs of
\* lines 268 and 280 are never reached); strftime keeps the hour of
\* clicked_at, which is the unit of the clock.
Stats(ce, um, now) ==
  [total_urls |-> Cardinality({um[i].short_code : i \in 1..Len(um)}),
   total_clicks |-> Len(ce),
   top_urls |-> {[short_code |-> um[i].short_code,
                  total_clicks |-> um[i].total_clicks] :
                   i \in {j \in 1..Len(um) : um[j].total_clicks > 0}},
   recent_clicks |-> {[id |-> ce[i].id, short_code |-> ce[i].short_code,
                       clicked_at |-> ce[i].clicked_at,
                       long_url |-> IF HasRow(um, ce[i].short_code)
                                    THEN RowOf(um, ce[i].short_code).long_url
                                    ELSE NULL] : i \in 1..Len(ce)},
   clicks_over_time |->
     {[hour |-> h,
       count |-> Cardinality({i \in 1..Len(ce) : ce[i].clicked_at = h})] :
        h \in {ce[i].clicked_at :
                 i \in {j \in 1..Len(ce) : ce[j].clicked_at >= now - Day}}},
   all_urls |-> {um[i] : i \in 1..Len(um)}]

\* Lines 247-322.  The handler only reads; a SELECT that raises
\* sqlite3.OperationalError (fails) skips conn.close() of line 311.
get_stats(p, fails) ==
  /\ p \in Workers
  /\ pc[p] = "idle"
  /\ ops < MaxOps
  /\ ops' = ops + 1
  /\ IF fails
     THEN /\ leaked' = TRUE
          /\ out' = [Silent EXCEPT !.p = p, !.at = "stats", !.status = 500,
                                   !.body = "error",
                                   !.raised = "OperationalError"]
     ELSE /\ leaked' = leaked
          /\ out' = [Silent EXCEPT !.p = p, !.at = "stats", !.status = 200,
                                   !.body = "stats",
                                   !.stats = Stats(click_events, url_metadata,
                                                   Now')]
  /\ UNCHANGED <<boot, redis_client, click_events, url_metadata, lock, txn,
                 pc, loc, stored, okClicks>>

\* ---------------------------------------------------------------- redis_subscriber
\* message["data"] of a message of type "message": text that is no JSON,
\* JSON that is no object, or a JSON object
Payloads ==
  {[kind |-> k, short_code |-> ABSENT, clicked_at |-> AbsentTime] :
     k \in {"malformed", "nondict"}} \cup
  [kind : {"dict"}, short_code : Codes \cup {NULL, ABSENT},
   clicked_at : Times \cup {NullTime, AbsentTime}]

\* Lines 54-60, a message of type "message"
redis_subscriber_message(data) ==
  /\ pc[Feed] = "listen"
  /\ ops < MaxOps
  /\ ops' = ops + 1
  /\ IF data.kind # "dict"
     THEN \* json.loads raises, or data.get raises AttributeError
          /\ Caught(Feed, IF data.kind = "malformed" THEN "JSONDecodeError"
                           ELSE "AttributeError", {})
     ELSE Enter_process_click_event(Feed, data)
  /\ UNCHANGED <<boot, redis_client, click_events, url_metadata, lock, txn,
                 leaked, stored, okClicks>>

\* redis_subscriber_control without the test of message["type"]: the data
\* of the confirmation (a number) goes to json.loads, which raises
redis_subscriber_control_unfiltered ==
  /\ pc[Feed] = "listen"
  /\ ops < MaxOps
  /\ ops' = ops + 1
  /\ Caught(Feed, "TypeError", {})
  /\ UNCHANGED <<boot, redis_client, click_events, url_metadata, lock, txn,
                 leaked, stored, okClicks>>

\* Lines 54-55, a message of another type (the subscribe confirmation)
redis_subscriber_control ==
  /\ pc[Feed] = "listen"
  /\ ops < MaxOps
  /\ ops' = ops + 1
  /\ out' = Silent
  /\ UNCHANGED <<boot, redis_client, click_events, url_metadata, lock, txn,
                 leaked, pc, loc, stored, okClicks>>

\* Lines 61-62: pubsub.listen() raises (the connection to the bus is lost)
redis_subscriber_lost ==
  /\ pc[Feed] = "listen"
  /\ pc' = [pc EXCEPT ![Feed] = "dead"]
  /\ out' = [Silent EXCEPT !.p = Feed, !.at = "listen",
                            !.body = "Redis subscriber error",
                            !.raised = "ConnectionError"]
  /\ UNCHANGED <<boot, redis_client, click_events, url_metadata, lock, txn,
                 leaked, loc, ops, stored, okClicks>>

\* ---------------------------------------------------------------- create_short_url
\* what POST {GO_SERVICE_URL}/api/shorten does
GoOutcomes ==
  [kind : {"response"}, status : {200}, short_code : Codes] \cup
  [kind : {"response"}, status : {201, 404, 500}, short_code : {NULL}] \cup
  [kind : {"neterr"}, status : {0}, short_code : {NULL}]

\* what POST {NODE_SERVICE_URL}/api/metadata does
NodeOutcomes ==
  [kind : {"timeout", "neterr"}, status : {0}, body : {NoMeta}] \cup
  [kind : {"response"}, status : {500}, body : {NoMeta}] \cup
  [kind : {"nondict", "badjson"}, status : {200}, body : {NoMeta}] \cup
  [kind : {"response"}, status : {200},
   body : [status : {"success", "error"}, title : {"T"},
           description : {"D"}, favicon_url : {"F"}]]

Unavailable == [NoMeta EXCEPT !.status = "unavailable"]

\* Lines 168-187: the call to the metadata service and get_db().
\* node_response.json() on a body that is no JSON raises an exception that
\* is a RequestException or not, depending on the requests release
\* (decoded_as_request_error).
fetch_metadata(p, short_code, long_url, node, decoded_as_request_error) ==
  IF \/ node.kind = "nondict"
     \/ (node.kind = "badjson" /\ ~decoded_as_request_error)
  THEN \* line 176 or 177 raises what is no RequestException
       /\ Throw(p, IF node.kind = "nondict" THEN "AttributeError"
                   ELSE "JSONDecodeError", {"go", "node"})
       /\ UNCHANGED <<pc, loc>>
  ELSE /\ loc' = [loc EXCEPT ![p] =
                    [NoLoc EXCEPT !.short_code = short_code,
                                  !.long_url = long_url,
                                  !.metadata =
                                     IF node.kind = "response"
                                        /\ node.status = 200
                                     THEN node.body ELSE Unavailable]]
       /\ pc' = [pc EXCEPT ![p] = "cr_insert"]
       /\ Calls(p, {"go", "node"})

\* Lines 160-162 raise a RequestException (caught at line 228)
Unreachable(go) == go.kind = "neterr"

\* Refused that lets every response through
Refused_never(go) == FALSE

\* Line 164, negated: the else branch of lines 222-226
Refused(go) == go.status # 200

\* A service that is not called does nothing: one outcome stands for all.
Used(long_url, go, node, decoded_as_request_error) ==
  /\ (long_url \in {ABSENT, ""}) => go = [kind |-> "neterr", status |-> 0,
                                          short_code |-> NULL]
  /\ (go.status # 200) => node = [kind |-> "timeout", status |-> 0,
                                  body |-> NoMeta]
  /\ (node.kind # "badjson") => decoded_as_request_error

\* create_short_url that only rejects a request without the field long_url
create_short_url_no_empty(p, long_url, go, node, decoded_as_request_error) ==
  /\ p \in Workers
  /\ pc[p] = "idle"
  /\ ops < MaxOps
  /\ ops' = ops + 1
  /\ Used(long_url, go, node, decoded_as_request_error)
  /\ IF long_url = ABSENT
     THEN /\ Reply(p, 400, "URL is required", ABSENT, {})
          /\ UNCHANGED <<pc, loc>>
     ELSE IF Unreachable(go)
     THEN /\ Reply(p, 503, "Go service unavailable", ABSENT, {"go"})
          /\ UNCHANGED <<pc, loc>>
     ELSE IF Refused(go)
     THEN /\ Reply(p, go.status, "Failed to create short URL", ABSENT,
                   {"go"})
          /\ UNCHANGED <<pc, loc>>
     ELSE fetch_metadata(p, go.short_code, long_url, node,
                         decoded_as_request_error)
  /\ UNCHANGED <<boot, redis_client, click_events, url_metadata, lock, txn,
                 leaked, stored, okClicks>>

\* Lines 153-187 and 222-230: the request up to the first statement on the
\* store.  go and node are what the two services do when they are called.
create_short_url(p, long_url, go, node, decoded_as_request_error) ==
  /\ p \in Workers
  /\ pc[p] = "idle"
  /\ ops < MaxOps
  /\ ops' = ops + 1
  /\ Used(long_url, go, node, decoded_as_request_error)
  /\ IF long_url \in {ABSENT, ""}
     THEN /\ Reply(p, 400, "URL is required", ABSENT, {})
          /\ UNCHANGED <<pc, loc>>
     ELSE IF Unreachable(go)
     THEN /\ Reply(p, 503, "Go service unavailable", ABSENT, {"go"})
          /\ UNCHANGED <<pc, loc>>
     ELSE IF Refused(go)
     THEN /\ Reply(p, go.status, "Failed to create short URL", ABSENT,
                   {"go"})
          /\ UNCHANGED <<pc, loc>>
     ELSE fetch_metadata(p, go.short_code, long_url, node,
                         decoded_as_request_error)
  /\ UNCHANGED <<boot, redis_client, click_events, url_metadata, lock, txn,
                 leaked, stored, okClicks>>

\* create_short_url_insert that starts the counter of a new row at the
\* number of clicks already recorded for its code
create_short_url_insert_backfill(p) ==
  /\ pc[p] = "cr_insert"
  /\ lock = "none"
  /\ url_metadata' =
       InsertOrIgnore(url_metadata,
                      [NewRow(loc[p].short_code, loc[p].long_url, Now,
                              loc[p].metadata)
                         EXCEPT !.total_clicks =
                                  CountCode(click_events, loc[p].short_code)])
  /\ stored' = IF HasRow(url_metadata, loc[p].short_code) THEN stored
               ELSE [stored EXCEPT ![loc[p].short_code] =
                       CountCode(click_events, loc[p].short_code)]
  /\ Reply(p, 200, "created", loc[p].metadata.status, {})
  /\ pc' = [pc EXCEPT ![p] = "idle"]
  /\ loc' = [loc EXCEPT ![p] = NoLoc]
  /\ UNCHANGED <<boot, redis_client, click_events, lock, txn, leaked, ops,
                 okClicks>>

\* Lines 186-221: the single INSERT OR IGNORE takes the write lock, the
\* commit publishes it and releases the lock, the connection is closed and
\* the handler answers 200.
create_short_url_insert(p) ==
  /\ pc[p] = "cr_insert"
  /\ lock = "none"
  /\ url_metadata' = InsertOrIgnore(url_metadata,
                                    NewRow(loc[p].short_code, loc[p].long_url,
                                           Now, loc[p].metadata))
  /\ stored' = IF HasRow(url_metadata, loc[p].short_code) THEN stored
               ELSE [stored EXCEPT ![loc[p].short_code] =
                       CountCode(click_events, loc[p].short_code)]
  /\ Reply(p, 200, "created", loc[p].metadata.status, {})
  /\ pc' = [pc EXCEPT ![p] = "idle"]
  /\ loc' = [loc EXCEPT ![p] = NoLoc]
  /\ UNCHANGED <<boot, redis_client, click_events, lock, txn, leaked, ops,
                 okClicks>>

\* A statement of create_short_url raises sqlite3.OperationalError
create_short_url_error(p) ==
  /\ pc[p] = "cr_insert"
  /\ Raise(p, "OperationalError")
  /\ UNCHANGED <<boot, redis_client, click_events, url_metadata, ops, stored,
                 okClicks>>

\* ---------------------------------------------------------------- Next
Next ==
  \/ \E connected \in BOOLEAN : init_redis(connected)
  \/ \E p \in Workers, data \in Bodies : receive_event(p, data)
  \/ \E data \in Payloads : redis_subscriber_message(data)
  \/ redis_subscriber_control
  \/ redis_subscriber_lost
  \/ \E p \in Procs : process_click_event_insert(p)
  \/ \E p \in Procs : process_click_event_update(p)
  \/ \E p \in Procs : process_click_event_error(p)
  \/ \E p \in Workers, u \in Urls \cup {ABSENT, ""}, go \in GoOutcomes,
        node \in NodeOutcomes, d \in BOOLEAN :
       create_short_url(p, u, go, node, d)
  \/ \E p \in Workers : create_short_url_insert(p)
  \/ \E p \in Workers : create_short_url_error(p)
  \/ \E p \in Workers, fails \in BOOLEAN : get_stats(p, fails)
  \/ Finalize

Spec == Init /\ [][Next]_vars

\* ================================================================ claims
Rows(um) == {um[i] : i \in 1..Len(um)}

LastClick == click_events[Len(click_events)]

PcePositions == {"pce_insert", "pce_update"}

\* ---------------------------------------------------------------- C1
\* C1 as stated: in every reachable state, every UrlMetadata row's
\* total_clicks equals the number of ClickEvent rows with its short_code,
\* also when clicks of the code were processed before the row was stored.
C1_TotalClicksIsCount ==
  \A r \in Rows(url_metadata) :
    r.total_clicks = CountCode(click_events, r.short_code)

\* C1 amended: in every reachable state, every UrlMetadata row's
\* total_clicks equals the number of ClickEvent rows with its short_code
\* that were recorded after the row was stored; the clicks recorded before
\* the create are not counted, so the two numbers agree only for a code
\* that had no click before its row was stored.
C1_TotalClicksIsCountSinceStored ==
  \A r \in Rows(url_metadata) :
    /\ r.total_clicks
         = CountCode(click_events, r.short_code) - stored[r.short_code]
    /\ stored[r.short_code] = 0
         => r.total_clicks = CountCode(click_events, r.short_code)

\* a row that was stored after a click of its code and clicked once since
C1_Witness ==
  \E r \in Rows(url_metadata) :
    /\ stored[r.short_code] = 1
    /\ r.total_clicks = 1
    /\ CountCode(click_events, r.short_code) = 2

\* ---------------------------------------------------------------- C2
\* C2: the INSERT and the UPDATE of process_click_event are one unit.  No
\* step makes a new ClickEvent visible in the committed tables (what every
\* other connection reads) without the increment and the last_clicked of
\* an existing row of its code, and a run of process_click_event that
\* raises (the insert, the update or the commit failed) leaves no
\* ClickEvent behind.
C2_PairedWrites ==
  [][/\ Len(click_events') > Len(click_events) =>
          /\ click_events' = Append(click_events, LastClick')
          /\ \A r \in Rows(url_metadata) :
               /\ r.short_code = LastClick'.short_code =>
                    [r EXCEPT !.total_clicks = @ + 1,
                              !.last_clicked = LastClick'.clicked_at]
                      \in Rows(url_metadata')
               /\ r.short_code # LastClick'.short_code =>
                    r \in Rows(url_metadata')
     /\ (out'.body = "error" /\ out'.at \in PcePositions) =>
          /\ click_events' = click_events
          /\ url_metadata' = url_metadata
          /\ txn'[out'.p] = NoTxn
    ]_vars

\* the UPDATE of a run has just failed, after its INSERT was executed
C2_Witness ==
  /\ out.body = "error"
  /\ out.at = "pce_update"
  /\ out.raised = "OperationalError"
  /\ click_events = <<>>

\* ---------------------------------------------------------------- C3
\* C3: no increment is lost under any interleaving of the listener thread
\* and the request threads.  For a code whose row is stored, once k runs of
\* process_click_event have returned, total_clicks is k and k ClickEvent
\* rows were added since the row was stored.
C3_NoLostIncrement ==
  \A c \in Codes :
    HasRow(url_metadata, c) =>
      /\ RowOf(url_metadata, c).total_clicks = okClicks[c]
      /\ CountCode(click_events, c) = stored[c] + okClicks[c]

\* a request thread has just committed a click of a stored code while the
\* listener is in the middle of processing a click of the same code
C3_Witness ==
  /\ out.p \in Workers
  /\ out.at = "pce_update"
  /\ out.body = "success"
  /\ pc[Feed] \in PcePositions
  /\ loc[Feed].short_code = LastClick.short_code
  /\ HasRow(url_metadata, LastClick.short_code)
  /\ okClicks[LastClick.short_code] >= 1

\* ---------------------------------------------------------------- C4
\* C4: a run of process_click_event for a code that has no UrlMetadata row
\* records exactly one ClickEvent with that code and leaves url_metadata as
\* it was, and the missing row raises no error: a run with a short_code and
\* a clicked_at only raises what the storage layer raises when it fails
\* (sqlite3.OperationalError: the write lock is held, a statement fails).
C4_NoRowNoChange ==
  [][\A p \in Procs :
       /\ (pc[p] = "pce_update" /\ out'.p = p /\ out'.body = "success"
           /\ ~HasRow(url_metadata, loc[p].short_code)) =>
            /\ url_metadata' = url_metadata
            /\ click_events'
                 = Append(click_events,
                          [id |-> Len(click_events) + 1,
                           short_code |-> loc[p].short_code,
                           clicked_at |-> loc[p].clicked_at])
       /\ (pc[p] \in PcePositions /\ out'.p = p /\ out'.body = "error"
           /\ loc[p].short_code # NULL /\ loc[p].clicked_at # NullTime) =>
            out'.raised = "OperationalError"
    ]_vars

\* the run for a code without a row has just returned
C4_Witness ==
  /\ out.at = "pce_update"
  /\ out.body = "success"
  /\ click_events # <<>>
  /\ ~HasRow(url_metadata, LastClick.short_code)

\* ---------------------------------------------------------------- C5
\* the steps of thread p in which the storage layer does not fail
StorageWorks(p) == out'.raised # "OperationalError"

\* the row process_click_event writes for the event thread p handles
ClickOf(p) ==
  [id |-> Len(click_events) + 1, short_code |-> loc[p].short_code,
   clicked_at |-> loc[p].clicked_at]

C7_ShortenFailureAborts ==
  [][\A p \in Workers, u \in Urls, go \in GoOutcomes, node \in NodeOutcomes :
       ((go.kind = "neterr" \/ go.status \notin 200..299)
        /\ create_short_url(p, u, go, node, TRUE)) =>
          /\ out'.status = IF go.kind = "neterr" THEN 503 ELSE go.status
          /\ out'.body \in {"Go service unavailable",
                            "Failed to create short URL"}
          /\ out'.calls = {"go"}
          /\ pc'[p] = "idle"
          /\ UNCHANGED <<click_events, url_metadata, txn, lock>>
    ]_vars

\* create has just passed on the error status of the shortening service
C7_Witness ==
  /\ out.body = "Failed to create short URL"
  /\ out.status = 500
  /\ out.calls = {"go"}

\* ---------------------------------------------------------------- C8
\* the metadata call failed: timeout, network error, a status that is not
\* 200, or a 200 whose body cannot be used (no JSON, or JSON that is no
\* object)
MetadataFailed(node) ==
  \/ node.kind \in {"timeout", "neterr", "nondict", "badjson"}
  \/ node.status # 200

\* C8, first half: when the shortening call succeeded, no failure of the
\* metadata call aborts create; create goes on to store the row with the
\* metadata {status: "unavailable"}.
C8_MetadataFailureNeverAborts ==
  [][\A p \in Workers, u \in Urls, go \in GoOutcomes, node \in NodeOutcomes,
        d \in BOOLEAN :
       (go.kind = "response" /\ go.status = 200 /\ MetadataFailed(node)
        /\ create_short_url(p, u, go, node, d)) =>
          /\ out'.body # "error"
          /\ pc'[p] = "cr_insert"
          /\ loc'[p].metadata.status = "unavailable"
    ]_vars

\* ---------------------------------------------------------------- C9
\* C9: the persistence step of create is insert-if-absent.  When create
\* commits for a short code that already has a row, every field of that
\* row is as before, whatever the metadata call returned, and every short
\* code has at most one row in every reachable state.
C9_InsertIfAbsent ==
  [][/\ \A p \in Workers :
          (pc[p] = "cr_insert" /\ pc'[p] = "idle" /\ out'.body = "created"
           /\ HasRow(url_metadata, loc[p].short_code)) =>
             url_metadata' = url_metadata
     /\ \A c \in Codes : CountCode(url_metadata', c) <= 1
    ]_vars

\* a create that got no metadata has just committed on a store whose only
\* row was stored as fetched by an earlier create and has been clicked
C9_Witness ==
  /\ out.body = "created"
  /\ out.metadata = "unavailable"
  /\ Len(url_metadata) = 1
  /\ url_metadata[1].metadata_status = "fetched"
  /\ url_metadata[1].total_clicks = 1

\* ---------------------------------------------------------------- C10
\* C10: a failure while the listener handles one data message (a payload
\* that cannot be parsed, an error of the store inside
\* process_click_event) does not end the subscription loop.  The listener
\* is back at pubsub.listen() after the error is logged, where the next
\* data message is taken whatever it holds, and the loop ends only when
\* listen() itself raises.
C10_ListenerSurvivesMessageFailure ==
  [][/\ (out'.p = Feed /\ out'.body = "error") =>
          /\ pc'[Feed] = "listen"
          /\ loc'[Feed] = NoLoc
     /\ (pc[Feed] # "dead" /\ pc'[Feed] = "dead") =>
          /\ pc[Feed] = "listen"
          /\ out'.body = "Redis subscriber error"
     /\ (pc[Feed] = "listen" /\ ops < MaxOps) =>
          \A data \in Payloads : ENABLED redis_subscriber_message(data)
    ]_vars

\* the store has just failed inside process_click_event on a message of
\* the listener, which is listening again and can be sent more messages
C10_Witness ==
  /\ out.p = Feed
  /\ out.body = "error"
  /\ out.at = "pce_update"
  /\ pc[Feed] = "listen"
  /\ ops < MaxOps

\* ---------------------------------------------------------------- C11
\* C11: no operation ends with its storage connection still open.  In every
\* reachable state no connection is left open by a handler run that has
\* ended, the runs that ended because a storage statement raised included.
C11_ConnectionReleasedOnEveryExit == ~leaked

\* ---------------------------------------------------------------- C12
\* the ClickEvent rows that record the click (c, t)
SameClick(ce, c, t) ==
  {i \in 1..Len(ce) : ce[i].short_code = c /\ ce[i].clicked_at = t}

\* C12: the Event Processor does not deduplicate.  A run of
\* process_click_event that returns, on either path, for a click (same
\* short_code and clicked_at) that is already recorded adds one more
\* ClickEvent row for it and adds 1 to total_clicks of the stored row of
\* its code: the click delivered by the feed and by POST /api/events makes
\* two rows and counts 2.
C12_NoDeduplication ==
  [][\A p \in Procs :
       (/\ pc[p] = "pce_update" /\ out'.p = p /\ out'.body = "success"
        /\ SameClick(click_events, loc[p].short_code, loc[p].clicked_at)
             # {}) =>
          /\ Cardinality(SameClick(click_events', loc[p].short_code,
                                   loc[p].clicked_at))
               = Cardinality(SameClick(click_events, loc[p].short_code,
                                       loc[p].clicked_at)) + 1
          /\ Len(click_events') = Len(click_events) + 1
          /\ HasRow(url_metadata, loc[p].short_code) =>
               RowOf(url_metadata', loc[p].short_code).total_clicks
                 = RowOf(url_metadata, loc[p].short_code).total_clicks + 1
    ]_vars

\* POST /api/events has just recorded a click of a stored code, which is
\* counted, while the listener has taken a message that carries the same
\* click and is about to record it again
C12_Witness ==
  /\ out.p \in Workers
  /\ out.at = "pce_update"
  /\ out.body = "success"
  /\ pc[Feed] = "pce_insert"
  /\ loc[Feed].short_code = LastClick.short_code
  /\ loc[Feed].clicked_at = LastClick.clicked_at
  /\ HasRow(url_metadata, LastClick.short_code)
  /\ RowOf(url_metadata, LastClick.short_code).total_clicks = 1

\* ---------------------------------------------------------------- C13
\* the metadata call returned a response that reports status "success"
MetadataSucceeded(node) ==
  node.kind = "response" /\ node.status = 200 /\ node.body.status = "success"

\* C13: a row stored by create has metadata_status "fetched" exactly when
\* the metadata call returned a response with status "success", and then
\* holds the returned title, description and favicon_url; in every other
\* case it has "failed" and the three fields are null.  No row ever has
\* the status "pending".
C13_StatusFollowsMetadata ==
  [][/\ \A r \in Rows(url_metadata') :
          /\ r.metadata_status \in {"fetched", "failed"}
          /\ r.metadata_status = "failed" =>
               /\ r.title = NULL
               /\ r.description = NULL
               /\ r.favicon_url = NULL
     /\ \A p \in Workers :
          (pc[p] = "idle" /\ pc'[p] = "cr_insert") =>
            \A u \in Urls, go \in GoOutcomes, node \in NodeOutcomes,
               d \in BOOLEAN :
              create_short_url(p, u, go, node, d) =>
                /\ (loc'[p].metadata.status = "success")
                     = MetadataSucceeded(node)
                /\ MetadataSucceeded(node) => loc'[p].metadata = node.body
     /\ \A p \in Workers :
          (/\ pc[p] = "cr_insert" /\ out'.p = p /\ out'.body = "created"
           /\ ~HasRow(url_metadata, loc[p].short_code)) =>
             /\ HasRow(url_metadata', loc[p].short_code)
             /\ LET r == RowOf(url_metadata', loc[p].short_code)
                    m == loc[p].metadata
                IN  /\ (r.metadata_status = "fetched") = (m.status = "success")
                    /\ (r.metadata_status = "failed") = (m.status # "success")
                    /\ m.status = "success" =>
                         /\ r.title = m.title
                         /\ r.description = m.description
                         /\ r.favicon_url = m.favicon_url
    ]_vars

\* the second create has just stored a row for a response that reported
\* status "error" with a title: the row is "failed" with no title, next to
\* the "fetched" row of the first create
C13_Witness ==
  /\ ops = 2
  /\ out.body = "created"
  /\ out.metadata = "error"
  /\ Len(url_metadata) = 2
  /\ url_metadata[1].metadata_status = "fetched"
  /\ url_metadata[1].title = "T"
  /\ url_metadata[2].metadata_status = "failed"
  /\ url_metadata[2].title = NULL

\* ---------------------------------------------------------------- C14
\* C14: ClickEvent rows are append-only.  Every step of the system (create,
\* click processing on either path, stats, their error exits) leaves every
\* recorded ClickEvent row as it is and in its place: the table after the
\* step starts with the table before it.
C14_ClickEventsAppendOnly ==
  [][/\ Len(click_events') >= Len(click_events)
     /\ SubSeq(click_events', 1, Len(click_events)) = click_events
    ]_vars

\* create has just stored a row on a store that holds two click events
C14_Witness ==
  /\ out.body = "created"
  /\ Len(click_events) = 2
  /\ Len(url_metadata) = 1

\* ---------------------------------------------------------------- C15
\* C15: the stats query is read-only.  A GET /api/stats in any reachable
\* state, answered or failed, leaves every ClickEvent and UrlMetadata row,
\* the open transactions and the write lock as they were; on an empty
\* store the answer is total_urls = 0, total_clicks = 0 and an empty list
\* for each of top_urls, recent_clicks, clicks_over_time and all_urls.
C15_StatsReadOnly ==
  [][\A p \in Workers, fails \in BOOLEAN :
       get_stats(p, fails) =>
         /\ UNCHANGED <<click_events, url_metadata, txn, lock>>
         /\ (~fails /\ click_events = <<>> /\ url_metadata = <<>>) =>
              /\ out'.status = 200
              /\ out'.stats = [total_urls |-> 0, total_clicks |-> 0,
                               top_urls |-> {}, recent_clicks |-> {},
                               clicks_over_time |-> {}, all_urls |-> {}]
    ]_vars

\* stats has just been answered on a store that holds a clicked row
C15_Witness ==
  /\ out.body = "stats"
  /\ out.stats.total_urls = 1
  /\ out.stats.total_clicks = 1
  /\ out.stats.top_urls # {}
  /\ click_events # <<>>
  /\ url_metadata # <<>>

\* ---------------------------------------------------------------- C16
\* C16: the listener is started only when the connection to the bus
\* succeeded at startup.  Startup completes either way, with the request
\* threads serving; when the bus was unreachable the listener never runs
\* and never writes, and a click sent to POST /api/events is still taken
\* and processed to its end.
C16_ListenerOnlyWhenConnected ==
  [][/\ \A connected \in BOOLEAN :
          init_redis(connected) =>
            /\ boot' = "running"
            /\ (pc'[Feed] = "listen") = connected
            /\ (pc'[Feed] = "off") = ~connected
            /\ \A p \in Workers : pc'[p] = "idle"
     /\ pc[Feed] # "off" => redis_client = "client"
     /\ (boot = "running" /\ redis_client = "none") =>
          /\ pc[Feed] = "off" /\ pc'[Feed] = "off"
          /\ out'.p # Feed
          /\ \A p \in Workers :
               /\ (pc[p] = "idle" /\ ops < MaxOps) =>
                    \A data \in Bodies : ENABLED receive_event(p, data)
               /\ (pc[p] = "pce_insert" /\ lock = "none") =>
                    ENABLED process_click_event_insert(p)
               /\ pc[p] = "pce_update" =>
                    ENABLED process_click_event_update(p)
    ]_vars

\* the bus was unreachable at startup, no listener runs, and a click sent
\* to POST /api/events has just been recorded and answered 200
C16_Witness ==
  /\ boot = "running"
  /\ redis_client = "none"
  /\ pc[Feed] = "off"
  /\ out.p \in Workers
  /\ out.at = "pce_update"
  /\ out.status = 200
  /\ click_events # <<>>

\* ---------------------------------------------------------------- C17
\* C17: a create request whose long_url is absent or empty is answered 400
\* "URL is required"; neither the shortening service nor the metadata
\* service is called, the request ends there, and nothing is written to
\* the store.
C17_MissingUrlRejected ==
  [][\A p \in Workers :
       (pc[p] = "idle" /\ ops' = ops + 1 /\ out'.p = p) =>
         \A u \in {ABSENT, ""}, go \in GoOutcomes, node \in NodeOutcomes :
           create_short_url(p, u, go, node, TRUE) =>
             /\ out'.status = 400
             /\ out'.body = "URL is required"
             /\ out'.calls = {}
             /\ pc'[p] = "idle"
             /\ UNCHANGED <<click_events, url_metadata, txn, lock>>
    ]_vars

\* create has just answered 400 without a call, on a store that holds rows
C17_Witness ==
  /\ out.body = "URL is required"
  /\ out.status = 400
  /\ out.calls = {}
  /\ url_metadata # <<>>
  /\ click_events # <<>>

\* ---------------------------------------------------------------- C18
\* the step hands the payload to process_click_event (line 58): the call is
\* entered, or it has already raised on a payload that is no object
Invoked == pc'[Feed] = "pce_insert" \/ out'.raised = "AttributeError"

\* what C18 says of the messages that are no data message, and of the
\* number of runs: a control message starts no run, logs no error and
\* changes nothing in the store; a run of the listener starts only with a
\* data message, and it ends, with at most one ClickEvent added, back at
\* listen()
OneRunPerDataMessage ==
  /\ redis_subscriber_control =>
       /\ pc'[Feed] = "listen"
       /\ out'.body # "error"
       /\ UNCHANGED <<click_events, url_metadata, txn, lock, loc>>
  /\ (pc[Feed] # "pce_insert" /\ pc'[Feed] = "pce_insert") =>
       \E data \in Payloads : redis_subscriber_message(data)
  /\ (pc[Feed] \in PcePositions /\ pc'[Feed] \notin PcePositions) =>
       /\ pc'[Feed] = "listen"
       /\ Len(click_events') <= Len(click_events) + 1

\* C18 as stated: the listener invokes the Event Processor exactly once for
\* each data message, whatever its payload, and never for a control
\* message, which changes nothing in the store.
C18_EveryDataMessageInvokes ==
  [][/\ \A data \in Payloads : redis_subscriber_message(data) => Invoked
     /\ OneRunPerDataMessage
    ]_vars

\* C18 amended: the listener invokes the Event Processor exactly once for
\* each data message whose payload parses as JSON, with the parsed value,
\* and never for a control message, which changes nothing in the store; a
\* data message whose payload is no JSON is logged as an error without the
\* Event Processor being invoked, and changes nothing in the store either.
C18_ParsedDataMessageInvokes ==
  [][/\ \A data \in Payloads :
          redis_subscriber_message(data) =>
            /\ data.kind # "malformed" => Invoked
            /\ data.kind = "dict" =>
                 /\ pc'[Feed] = "pce_insert"
                 /\ loc'[Feed].short_code = Get(data.short_code)
                 /\ data.clicked_at # AbsentTime =>
                      loc'[Feed].clicked_at = data.clicked_at
            /\ data.kind = "malformed" =>
                 /\ ~Invoked
                 /\ out'.raised = "JSONDecodeError"
                 /\ pc'[Feed] = "listen"
            /\ UNCHANGED <<click_events, url_metadata, txn, lock>>
     /\ OneRunPerDataMessage
    ]_vars

\* the listener has taken its second data message and entered the Event
\* Processor with its event, after the run for the first one recorded a
\* click
C18_Witness ==
  /\ pc[Feed] = "pce_insert"
  /\ loc[Feed].short_code \in Codes
  /\ ops = 2
  /\ Len(click_events) = 1
  /\ \A p \in Workers : pc[p] = "idle"

\* ---------------------------------------------------------------- C19
\* C19: in every reachable state, total_clicks of every UrlMetadata row is
\* at most the number of ClickEvent rows of its code, and it is the number
\* of clicks of the code processed after the row was stored.  A row starts
\* at 0 whatever clicks of its code are recorded already, and those clicks
\* are never added later.
C19_CountsClicksSinceStored ==
  [][\A r \in Rows(url_metadata') :
       /\ r.total_clicks >= 0
       /\ r.total_clicks <= CountCode(click_events', r.short_code)
       /\ r.total_clicks = okClicks'[r.short_code]
       /\ ~HasRow(url_metadata, r.short_code) => r.total_clicks = 0
       /\ HasRow(url_metadata, r.short_code) =>
            r.total_clicks - RowOf(url_metadata, r.short_code).total_clicks
              = CountCode(click_events', r.short_code)
                  - CountCode(click_events, r.short_code)
    ]_vars

\* the listener has just processed the one click that counts for a row
\* stored after an earlier click of its code
C19_Witness ==
  /\ out.p = Feed
  /\ out.body = "success"
  /\ HasRow(url_metadata, LastClick.short_code)
  /\ RowOf(url_metadata, LastClick.short_code).total_clicks = 1
  /\ CountCode(click_events, LastClick.short_code) = 2
  /\ okClicks[LastClick.short_code] = 1

\* ---------------------------------------------------------------- C20
\* the ClickEvent recorded last for code c
LastClickOf(c) ==
  click_events[CHOOSE i \in 1..Len(click_events) :
                 /\ click_events[i].short_code = c
                 /\ \A j \in (i + 1)..Len(click_events) :
                      click_events[j].short_code # c]

\* C20: in every reachable state, last_clicked of a UrlMetadata row is null
\* exactly when its total_clicks is 0; when it is not null it is the
\* clicked_at of the click of its code that was processed last, which need
\* not be the greatest clicked_at of its clicks.
C20_LastClickedIsLastProcessed ==
  \A r \in Rows(url_metadata) :
    /\ (r.last_clicked = NullTime) = (r.total_clicks = 0)
    /\ r.last_clicked # NullTime =>
         /\ CountCode(click_events, r.short_code) > 0
         /\ r.last_clicked = LastClickOf(r.short_code).clicked_at

\* a row clicked twice, whose last click carries an earlier clicked_at than
\* the click before it
C20_Witness ==
  /\ Len(click_events) = 2
  /\ click_events[1].short_code = click_events[2].short_code
  /\ click_events[1].clicked_at > click_events[2].clicked_at
  /\ HasRow(url_metadata, click_events[2].short_code)
  /\ RowOf(url_metadata, click_events[2].short_code).total_clicks = 2
  /\ RowOf(url_metadata, click_events[2].short_code).last_clicked
       = click_events[2].clicked_at

====
